---- MODULE Spec2Model ----
(***************************************************************************)
(* Model of web/src/backend/kms.ts: the five exported operations           *)
(* (getKMSClient, createKMSKey, getKMSKeyStatus, signJWTWithKMSKey,         *)
(* scheduleKeyDeletion) run as concurrent invocations against a remote      *)
(* STS/KMS service and the external JWK store.  Every await is one step.   *)
(*                                                                         *)
(* Strings that the code builds (tokens, PEM bodies, JSON) are sequences of *)
(* one-character strings; byte arrays are sequences of 0..255.             *)
(***************************************************************************)
EXTENDS Integers, Sequences, FiniteSets, TLC

\* ------------------------------------------------------------------ bounds

\* Number of keys the remote service lets the model create (CreateKey fails
\* with a limit error afterwards).
MaxKeys == 2

\* Concurrent invocations in flight.
Procs == {"p1", "p2"}

\* Key ids handed out by the remote CreateKey, in order.
KeyNames == <<"k1", "k2", "k3", "k4">>

KeyIds == {KeyNames[i] : i \in 1..MaxKeys}

\* ------------------------------------------------------- program constants

\* kms.ts:175  PendingWindowInDays: 7
PendingWindowInDays == 7

\* kms.ts:64  DurationSeconds: 3600
DurationSeconds == 3600

\* ------------------------------------------------------------ JS values

undefined == [t |-> "undefined"]

\* An optional field of a response (`Credentials?`, `KeyMetadata?.KeyId`, ...).
Absent == [has |-> FALSE]

\* JS truthiness of an optional object (an object, a Uint8Array of any length,
\* is truthy; only a missing one is falsy).
TruthyObject(o) == o.has

\* JS truthiness of an optional string field held in o.str: missing and ""
\* are falsy.
TruthyString(o) == o.has /\ o.str # ""

\* ---------------------------------------------------------------- text

RECURSIVE ReplaceAll(_, _, _)
\* String.prototype.replace(/c/g, by): every occurrence of the character c
\* replaced by the character sequence by.
ReplaceAll(s, c, by) ==
    IF s = <<>> THEN <<>>
    ELSE (IF Head(s) = c THEN by ELSE <<Head(s)>>) \o ReplaceAll(Tail(s), c, by)

\* The characters of the modelled texts (JSON punctuation, the base64 and
\* base64url alphabets, '.', '=') with their UTF-8 (ASCII) codes.
AsciiChars ==
    << "A","B","C","D","E","F","G","H","I","J","K","L","M","N","O","P",
       "Q","R","S","T","U","V","W","X","Y","Z","a","b","c","d","e","f",
       "g","h","i","j","k","l","m","n","o","p","q","r","s","t","u","v",
       "w","x","y","z","0","1","2","3","4","5","6","7","8","9","+","/",
       "-", "_", ".", "=", "{", "}", "\"", ":", "," >>

AsciiCodes ==
    << 65, 66, 67, 68, 69, 70, 71, 72, 73, 74, 75, 76, 77, 78, 79, 80,
       81, 82, 83, 84, 85, 86, 87, 88, 89, 90, 97, 98, 99, 100, 101, 102,
       103, 104, 105, 106, 107, 108, 109, 110, 111, 112, 113, 114, 115, 116,
       117, 118, 119, 120, 121, 122, 48, 49, 50, 51, 52, 53, 54, 55, 56, 57,
       43, 47, 45, 95, 46, 61, 123, 125, 34, 58, 44 >>

\* The code of each character, as a table.
CharCodes ==
    [c \in {AsciiChars[i] : i \in 1..Len(AsciiChars)} |->
        AsciiCodes[CHOOSE i \in 1..Len(AsciiChars) : AsciiChars[i] = c]]

CharCode(c) == CharCodes[c]

\* Buffer.from(string) / TextEncoder: the UTF-8 bytes of an ASCII string.
Utf8(s) == [i \in 1..Len(s) |-> CharCode(s[i])]

Quote(s) == <<"\"">> \o s \o <<"\"">>

RECURSIVE StringifyMembers(_)
StringifyMembers(obj) ==
    IF obj = <<>> THEN <<>>
    ELSE Quote(obj[1][1]) \o <<":">> \o Quote(obj[1][2])
         \o (IF Len(obj) > 1 THEN <<",">> ELSE <<>>)
         \o StringifyMembers(Tail(obj))

\* JSON.stringify of an object given as its members in insertion order, each a
\* <<name, value>> pair of strings that need no escaping.
JSONStringify(obj) == <<"{">> \o StringifyMembers(obj) \o <<"}">>

\* -------------------------------------------------------------- base64

Base64Alphabet ==
    << "A","B","C","D","E","F","G","H","I","J","K","L","M","N","O","P",
       "Q","R","S","T","U","V","W","X","Y","Z","a","b","c","d","e","f",
       "g","h","i","j","k","l","m","n","o","p","q","r","s","t","u","v",
       "w","x","y","z","0","1","2","3","4","5","6","7","8","9","+","/" >>

B64Char(n) == Base64Alphabet[n + 1]

RECURSIVE Base64(_)
\* Buffer.from(bytes).toString("base64"): RFC 4648 base64 with '=' padding.
Base64(bytes) ==
    IF Len(bytes) = 0 THEN <<>>
    ELSE IF Len(bytes) = 1 THEN
        << B64Char(bytes[1] \div 4), B64Char((bytes[1] % 4) * 16), "=", "=" >>
    ELSE IF Len(bytes) = 2 THEN
        << B64Char(bytes[1] \div 4),
           B64Char((bytes[1] % 4) * 16 + bytes[2] \div 16),
           B64Char((bytes[2] % 16) * 4), "=" >>
    ELSE
        << B64Char(bytes[1] \div 4),
           B64Char((bytes[1] % 4) * 16 + bytes[2] \div 16),
           B64Char((bytes[2] % 16) * 4 + bytes[3] \div 64),
           B64Char(bytes[3] % 64) >>
        \o Base64(SubSeq(bytes, 4, Len(bytes)))

\* jose's base64url.encode(Uint8Array): base64 with '=' removed, '+' -> '-',
\* '/' -> '_'.
Base64UrlEncodeBytes(bytes) ==
    ReplaceAll(ReplaceAll(ReplaceAll(Base64(bytes), "=", <<>>), "+", <<"-">>),
               "/", <<"_">>)

\* jose's base64url.encode(string): the string is UTF-8 encoded first.
Base64UrlEncodeString(s) == Base64UrlEncodeBytes(Utf8(s))

\* ------------------------------------------------------------- inputs

\* header.kid values and payload.sub values of the sign calls.
Kids == { <<"a">>, <<"b">> }

Subs == { <<"u", "1">>, <<"u", "2">> }

HeaderOf(kid) == << << <<"k", "i", "d">>, kid >> >>

PayloadOf(sub) == << << <<"s", "u", "b">>, sub >> >>

\* KeySpec values passed to createKMSKey.
Algs == {"RSA_2048"}

\* Key ids a caller may pass to getKMSKeyStatus and scheduleKeyDeletion.
CallerKeyIds == KeyIds

\* A third argument a caller may pass to scheduleKeyDeletion, meaning a
\* pending window in days.  The function declares two parameters
\* (client, keyId), so the argument is never bound to anything.
ExtraWindowArgs == {6, 7}

\* ------------------------------------------------- remote service samples

\* Credentials the remote AssumeRole may return.
CredentialSamples ==
    { [has |-> TRUE, AccessKeyId |-> "AK1", SecretAccessKey |-> "SK1",
       SessionToken |-> "ST1"],
      [has |-> TRUE, AccessKeyId |-> "AK2", SecretAccessKey |-> "SK2",
       SessionToken |-> "ST2"] }

\* Key material the remote GetPublicKey may return (a Uint8Array).
PublicKeySamples == { <<>>, <<48>>, <<48, 130>>, <<251, 255, 190>> }

\* Raw signatures the remote Sign may return (a Uint8Array).
SignatureSamples == { <<>>, <<170, 187, 204>>, <<251, 255>>, <<255>> }

Bytes(b) == [has |-> TRUE, bytes |-> b]

Str(s) == [has |-> TRUE, str |-> s]

Bool(b) == [has |-> TRUE, b |-> b]

\* A rejected promise: the SDK call throws.
Thrown == [ok |-> FALSE]

\* --------------------------------------------------------------- state

VARIABLES
    op,      \* op[p]: the exported function invocation p runs, or "none"
    pc,      \* pc[p]: the await invocation p is about to perform
    args,    \* args[p]: the arguments of the invocation
    local,   \* local[p]: its local constants (keyId, encodedHeaderPayload, kms_id)
    sent,    \* sent[p]: the requests it has sent, in order
    recv,    \* recv[p]: the outcomes of those requests, in order
    result,  \* result[p]: the value it returned
    kms      \* kms[k]: remote lifecycle state of key k

vars == << op, pc, args, local, sent, recv, result, kms >>

NumCreated == Cardinality({k \in KeyIds : kms[k] # "Absent"})

Init ==
    /\ op = [p \in Procs |-> "none"]
    /\ pc = [p \in Procs |-> "idle"]
    /\ args = [p \in Procs |-> <<>>]
    /\ local = [p \in Procs |-> <<>>]
    /\ sent = [p \in Procs |-> <<>>]
    /\ recv = [p \in Procs |-> <<>>]
    /\ result = [p \in Procs |-> undefined]
    /\ kms = [k \in KeyIds |-> "Absent"]

\* Invocation p starts function f with arguments a and locals l, and runs up
\* to its first await, named by at.
Enter(p, f, a, l, at) ==
    /\ pc[p] = "idle"
    /\ op' = [op EXCEPT ![p] = f]
    /\ pc' = [pc EXCEPT ![p] = at]
    /\ args' = [args EXCEPT ![p] = a]
    /\ local' = [local EXCEPT ![p] = l]
    /\ UNCHANGED << sent, recv, result, kms >>

\* Invocation p has sent request req and got outcome rsp.
Exchange(p, req, rsp) ==
    /\ sent' = [sent EXCEPT ![p] = Append(@, req)]
    /\ recv' = [recv EXCEPT ![p] = Append(@, rsp)]

\* Invocation p returns v.
ReturnValue(p, v) ==
    /\ pc' = [pc EXCEPT ![p] = "done"]
    /\ result' = [result EXCEPT ![p] = v]

\* ----------------------------------------------------------- getKMSClient

AssumeRoleRequest ==
    [cmd |-> "AssumeRole", RoleSessionName |-> "DevPortalKmsSession",
     DurationSeconds |-> DurationSeconds]

\* Outcomes of the remote AssumeRole.
AssumeRoleOutcomes ==
    {Thrown, [ok |-> TRUE, Credentials |-> Absent]}
    \cup {[ok |-> TRUE, Credentials |-> c] : c \in CredentialSamples}

\* Variant of KMSClientOf that builds the client whether or not credentials
\* came back.
KMSClientUnchecked(rsp) ==
    [t |-> "KMSClient",
     credentials |->
         IF rsp.ok /\ TruthyObject(rsp.Credentials)
         THEN [accessKeyId |-> rsp.Credentials.AccessKeyId,
               secretAccessKey |-> rsp.Credentials.SecretAccessKey,
               sessionToken |-> rsp.Credentials.SessionToken]
         ELSE [accessKeyId |-> "", secretAccessKey |-> "", sessionToken |-> ""]]

\* What getKMSClient returns for an AssumeRole outcome.
KMSClientOf(rsp) ==
    IF rsp.ok /\ TruthyObject(rsp.Credentials)
    THEN [t |-> "KMSClient",
          credentials |->
              [accessKeyId |-> rsp.Credentials.AccessKeyId,
               secretAccessKey |-> rsp.Credentials.SecretAccessKey,
               sessionToken |-> rsp.Credentials.SessionToken]]
    ELSE undefined

CallGetKMSClient(p) == Enter(p, "getKMSClient", <<>>, <<>>, "AssumeRole")

AssumeRole(p) ==
    /\ pc[p] = "AssumeRole"
    /\ \E rsp \in AssumeRoleOutcomes :
        /\ Exchange(p, AssumeRoleRequest, rsp)
        /\ ReturnValue(p, KMSClientOf(rsp))
    /\ UNCHANGED << op, args, local, kms >>

\* ----------------------------------------------------------- createKMSKey

CreateKeyRequest(alg) ==
    [cmd |-> "CreateKey", KeySpec |-> alg, KeyUsage |-> "SIGN_VERIFY",
     TagKey |-> "app", TagValue |-> "developer-portal"]

GetPublicKeyRequest(keyId) == [cmd |-> "GetPublicKey", KeyId |-> keyId]

\* The publicKey template literal around the base64 of the key material.
PublicKeyPem(PublicKey) ==
    <<"-----BEGIN PUBLIC KEY-----", "\n">>
    \o Base64(PublicKey)
    \o <<"\n", "-----END PUBLIC KEY-----">>

\* `if (keyId)` on the CreateKey outcome: the public key is fetched.
FetchesPublicKey(rsp) == rsp.ok /\ TruthyString(rsp.KeyId)

\* Variant of CreateKeyResultOf that returns the keyId it holds when the
\* public key could not be fetched.
CreateKeyResultPartial(keyId, rsp) ==
    IF rsp.ok /\ TruthyObject(rsp.PublicKey)
    THEN [t |-> "object", keyId |-> keyId,
          publicKey |-> PublicKeyPem(rsp.PublicKey.bytes)]
    ELSE [t |-> "object", keyId |-> keyId]

\* What createKMSKey returns for local keyId and a GetPublicKey outcome.
CreateKeyResultOf(keyId, rsp) ==
    IF rsp.ok /\ TruthyObject(rsp.PublicKey)
    THEN [t |-> "object", keyId |-> keyId,
          publicKey |-> PublicKeyPem(rsp.PublicKey.bytes)]
    ELSE undefined

CallCreateKMSKey(p) ==
    \E alg \in Algs :
        Enter(p, "createKMSKey", [alg |-> alg], <<>>, "CreateKey")

\* Outcomes of the remote CreateKey: it throws, answers without a usable
\* KeyMetadata.KeyId, or creates the next key and returns its id.
CreateKeyOutcomes ==
    {Thrown, [ok |-> TRUE, KeyId |-> Absent], [ok |-> TRUE, KeyId |-> Str("")]}
    \cup (IF NumCreated < MaxKeys
          THEN {[ok |-> TRUE, KeyId |-> Str(KeyNames[NumCreated + 1])]}
          ELSE {})

\* The remote effect of a CreateKey outcome: a returned key exists, enabled.
CreateKeyEffect(rsp) ==
    IF rsp.ok /\ rsp.KeyId.has /\ rsp.KeyId.str \in KeyIds
    THEN [kms EXCEPT ![rsp.KeyId.str] = "Enabled"]
    ELSE kms

CreateKey(p) ==
    /\ pc[p] = "CreateKey"
    /\ \E rsp \in CreateKeyOutcomes :
        /\ kms' = CreateKeyEffect(rsp)
        /\ Exchange(p, CreateKeyRequest(args[p].alg), rsp)
        /\ IF FetchesPublicKey(rsp)
           THEN /\ local' = [local EXCEPT ![p] = [keyId |-> rsp.KeyId.str]]
                /\ pc' = [pc EXCEPT ![p] = "GetPublicKey"]
                /\ UNCHANGED result
           ELSE /\ ReturnValue(p, undefined)
                /\ UNCHANGED local
    /\ UNCHANGED << op, args >>

\* Outcomes of the remote GetPublicKey for key k.
GetPublicKeyOutcomes(k) ==
    {Thrown}
    \cup (IF kms[k] = "Enabled"
          THEN {[ok |-> TRUE, PublicKey |-> Absent]}
               \cup {[ok |-> TRUE, PublicKey |-> Bytes(b)] : b \in PublicKeySamples}
          ELSE {})

\* Variant of GetPublicKey that asks again when the fetch throws.
GetPublicKeyRetrying(p) ==
    /\ pc[p] = "GetPublicKey"
    /\ \E rsp \in GetPublicKeyOutcomes(local[p].keyId) :
        /\ Exchange(p, GetPublicKeyRequest(local[p].keyId), rsp)
        /\ IF rsp.ok
           THEN ReturnValue(p, CreateKeyResultOf(local[p].keyId, rsp))
           ELSE UNCHANGED << pc, result >>
    /\ UNCHANGED << op, args, local, kms >>

\* Variant of GetPublicKey that, when the fetch throws, schedules the deletion
\* of the key it has just created.
GetPublicKeyCleaningUp(p) ==
    /\ pc[p] = "GetPublicKey"
    /\ \E rsp \in GetPublicKeyOutcomes(local[p].keyId) :
        /\ ReturnValue(p, CreateKeyResultOf(local[p].keyId, rsp))
        /\ IF rsp.ok
           THEN /\ Exchange(p, GetPublicKeyRequest(local[p].keyId), rsp)
                /\ UNCHANGED kms
           ELSE /\ sent' = [sent EXCEPT ![p] =
                        @ \o << GetPublicKeyRequest(local[p].keyId),
                                [cmd |-> "ScheduleKeyDeletion",
                                 KeyId |-> local[p].keyId,
                                 PendingWindowInDays |-> 7] >>]
                /\ recv' = [recv EXCEPT ![p] = @ \o <<rsp, [ok |-> TRUE]>>]
                /\ kms' = [kms EXCEPT ![local[p].keyId] = "PendingDeletion"]
    /\ UNCHANGED << op, args, local >>

GetPublicKey(p) ==
    /\ pc[p] = "GetPublicKey"
    /\ \E rsp \in GetPublicKeyOutcomes(local[p].keyId) :
        /\ Exchange(p, GetPublicKeyRequest(local[p].keyId), rsp)
        /\ ReturnValue(p, CreateKeyResultOf(local[p].keyId, rsp))
    /\ UNCHANGED << op, args, local, kms >>

\* -------------------------------------------------------- getKMSKeyStatus

DescribeKeyRequest(keyId) == [cmd |-> "DescribeKey", KeyId |-> keyId]

\* Outcomes of the remote DescribeKey for key k.
DescribeKeyOutcomes(k) ==
    {Thrown}
    \cup (IF kms[k] \in {"Enabled", "Disabled", "PendingDeletion"}
          THEN {[ok |-> TRUE, Enabled |-> Bool(kms[k] = "Enabled")],
                [ok |-> TRUE, Enabled |-> Absent]}
          ELSE {})

\* Variant of KeyStatusOf that reports a key it could not describe as
\* disabled.
KeyStatusDefaultFalse(rsp) ==
    IF rsp.ok /\ rsp.Enabled.has
    THEN [t |-> "boolean", b |-> rsp.Enabled.b]
    ELSE [t |-> "boolean", b |-> FALSE]

\* What getKMSKeyStatus returns for a DescribeKey outcome:
\* KeyMetadata?.Enabled, or nothing from the catch block.
KeyStatusOf(rsp) ==
    IF rsp.ok /\ rsp.Enabled.has
    THEN [t |-> "boolean", b |-> rsp.Enabled.b]
    ELSE undefined

CallGetKMSKeyStatus(p) ==
    \E k \in CallerKeyIds :
        Enter(p, "getKMSKeyStatus", [keyId |-> k], <<>>, "DescribeKey")

DescribeKey(p) ==
    /\ pc[p] = "DescribeKey"
    /\ \E rsp \in DescribeKeyOutcomes(args[p].keyId) :
        /\ Exchange(p, DescribeKeyRequest(args[p].keyId), rsp)
        /\ ReturnValue(p, KeyStatusOf(rsp))
    /\ UNCHANGED << op, args, local, kms >>

\* ------------------------------------------------------ signJWTWithKMSKey

\* encodedHeaderPayload: `${encodedHeader}.${encodedPayload}`.
EncodedHeaderPayload(header, payload) ==
    Base64UrlEncodeString(JSONStringify(header))
    \o <<".">>
    \o Base64UrlEncodeString(JSONStringify(payload))

RetrieveJWKRequest(kid) == [cmd |-> "retrieveJWK", kid |-> kid]

\* header.kid: the value of the member named kid.
KidOf(header) ==
    LET i == CHOOSE j \in 1..Len(header) : header[j][1] = <<"k", "i", "d">>
    IN  header[i][2]

\* Outcomes of the JWK store lookup: it throws, or resolves to a record
\* naming some kms key id.
RetrieveJWKOutcomes == {Thrown} \cup {[ok |-> TRUE, kms_id |-> k] : k \in KeyIds}

SignRequest(kms_id, message) ==
    [cmd |-> "Sign", KeyId |-> kms_id, Message |-> message,
     MessageType |-> "RAW", SigningAlgorithm |-> "RSASSA_PKCS1_V1_5_SHA_256"]

\* Outcomes of the remote Sign against key k.
SignOutcomes(k) ==
    {Thrown}
    \cup (IF kms[k] = "Enabled"
          THEN {[ok |-> TRUE, Signature |-> Absent]}
               \cup {[ok |-> TRUE, Signature |-> Bytes(b)] : b \in SignatureSamples}
          ELSE {})

\* Variant of EncodedSignature that takes the standard base64 text of the
\* signature as it is.
EncodedSignatureStandard(Signature) == Base64(Signature)

\* encodedSignature: base64url.encode followed by the three replace calls.
EncodedSignature(Signature) ==
    ReplaceAll(ReplaceAll(ReplaceAll(Base64UrlEncodeBytes(Signature),
                                     "+", <<"-">>), "/", <<"_">>), "=", <<>>)

\* What signJWTWithKMSKey returns for a Sign outcome.
SignedJWTOf(encodedHeaderPayload, rsp) ==
    IF rsp.ok /\ TruthyObject(rsp.Signature)
    THEN [t |-> "string",
          s |-> encodedHeaderPayload \o <<".">> \o EncodedSignature(rsp.Signature.bytes)]
    ELSE undefined

CallSignJWTWithKMSKey(p) ==
    \E kid \in Kids, sub \in Subs :
        Enter(p, "signJWTWithKMSKey",
              [header |-> HeaderOf(kid), payload |-> PayloadOf(sub)],
              [encodedHeaderPayload |->
                   EncodedHeaderPayload(HeaderOf(kid), PayloadOf(sub))],
              "retrieveJWK")

RetrieveJWK(p) ==
    /\ pc[p] = "retrieveJWK"
    /\ \E rsp \in RetrieveJWKOutcomes :
        /\ Exchange(p, RetrieveJWKRequest(KidOf(args[p].header)), rsp)
        /\ IF rsp.ok
           THEN /\ local' = [local EXCEPT ![p] =
                        [encodedHeaderPayload |-> @.encodedHeaderPayload,
                         kms_id |-> rsp.kms_id]]
                /\ pc' = [pc EXCEPT ![p] = "Sign"]
                /\ UNCHANGED result
           ELSE /\ ReturnValue(p, undefined)
                /\ UNCHANGED local
    /\ UNCHANGED << op, args, kms >>

Sign(p) ==
    /\ pc[p] = "Sign"
    /\ \E rsp \in SignOutcomes(local[p].kms_id) :
        /\ Exchange(p, SignRequest(local[p].kms_id,
                                   Utf8(local[p].encodedHeaderPayload)), rsp)
        /\ ReturnValue(p, SignedJWTOf(local[p].encodedHeaderPayload, rsp))
    /\ UNCHANGED << op, args, local, kms >>

\* ---------------------------------------------------- scheduleKeyDeletion

\* Variant of ScheduleKeyDeletionRequest with a window one day short.
ScheduleKeyDeletionRequestShort(keyId) ==
    [cmd |-> "ScheduleKeyDeletion", KeyId |-> keyId,
     PendingWindowInDays |-> PendingWindowInDays - 1]

ScheduleKeyDeletionRequest(keyId) ==
    [cmd |-> "ScheduleKeyDeletion", KeyId |-> keyId,
     PendingWindowInDays |-> PendingWindowInDays]

\* Outcomes of the remote ScheduleKeyDeletion for key k: it throws, or (for a
\* key that exists and is not already pending deletion) acknowledges.
ScheduleKeyDeletionOutcomes(k) ==
    {Thrown}
    \cup (IF kms[k] \in {"Enabled", "Disabled"} THEN {[ok |-> TRUE]} ELSE {})

\* The remote effect of a ScheduleKeyDeletion outcome for the request req.
ScheduleKeyDeletionEffect(req, rsp) ==
    IF rsp.ok THEN [kms EXCEPT ![req.KeyId] = "PendingDeletion"] ELSE kms

\* What scheduleKeyDeletion returns for an outcome: the function has no return
\* statement, in the try block or after the catch.
ScheduledOf(rsp) == undefined

CallScheduleKeyDeletion(p) ==
    \E k \in CallerKeyIds, w \in ExtraWindowArgs :
        Enter(p, "scheduleKeyDeletion", [keyId |-> k, extra |-> w], <<>>,
              "ScheduleKeyDeletion")

ScheduleKeyDeletion(p) ==
    /\ pc[p] = "ScheduleKeyDeletion"
    /\ LET req == ScheduleKeyDeletionRequest(args[p].keyId)
       IN  \E rsp \in ScheduleKeyDeletionOutcomes(req.KeyId) :
               /\ kms' = ScheduleKeyDeletionEffect(req, rsp)
               /\ Exchange(p, req, rsp)
               /\ ReturnValue(p, ScheduledOf(rsp))
    /\ UNCHANGED << op, args, local >>

\* ------------------------------------------------------------ environment

\* The caller has consumed the result; the slot is free for a new invocation.
Return(p) ==
    /\ pc[p] = "done"
    /\ op' = [op EXCEPT ![p] = "none"]
    /\ pc' = [pc EXCEPT ![p] = "idle"]
    /\ args' = [args EXCEPT ![p] = <<>>]
    /\ local' = [local EXCEPT ![p] = <<>>]
    /\ sent' = [sent EXCEPT ![p] = <<>>]
    /\ recv' = [recv EXCEPT ![p] = <<>>]
    /\ result' = [result EXCEPT ![p] = undefined]
    /\ UNCHANGED kms

\* Transitions the remote service owns: a key is disabled (by its operator),
\* and a key pending deletion is deleted when its window elapses.
RemoteDisables(k) ==
    /\ kms[k] = "Enabled"
    /\ kms' = [kms EXCEPT ![k] = "Disabled"]
    /\ UNCHANGED << op, pc, args, local, sent, recv, result >>

RemoteDeletes(k) ==
    /\ kms[k] = "PendingDeletion"
    /\ kms' = [kms EXCEPT ![k] = "Deleted"]
    /\ UNCHANGED << op, pc, args, local, sent, recv, result >>

Next ==
    \/ \E p \in Procs : CallGetKMSClient(p)
    \/ \E p \in Procs : AssumeRole(p)
    \/ \E p \in Procs : CallCreateKMSKey(p)
    \/ \E p \in Procs : CreateKey(p)
    \/ \E p \in Procs : GetPublicKey(p)
    \/ \E p \in Procs : CallGetKMSKeyStatus(p)
    \/ \E p \in Procs : DescribeKey(p)
    \/ \E p \in Procs : CallSignJWTWithKMSKey(p)
    \/ \E p \in Procs : RetrieveJWK(p)
    \/ \E p \in Procs : Sign(p)
    \/ \E p \in Procs : CallScheduleKeyDeletion(p)
    \/ \E p \in Procs : ScheduleKeyDeletion(p)
    \/ \E p \in Procs : Return(p)
    \/ \E k \in KeyIds : RemoteDisables(k)
    \/ \E k \in KeyIds : RemoteDeletes(k)

Spec == Init /\ [][Next]_vars

\* ---------------------------------------------------- reference notions

Done(p, f) == pc[p] = "done" /\ op[p] = f

Last(q) == q[Len(q)]

RECURSIVE SplitAt(_, _)
\* The segments of s between occurrences of the character c.
SplitAt(s, c) ==
    IF \A i \in 1..Len(s) : s[i] # c THEN <<s>>
    ELSE LET i == CHOOSE j \in 1..Len(s) :
                      s[j] = c /\ \A h \in 1..(j - 1) : s[h] # c
         IN  <<SubSeq(s, 1, i - 1)>> \o SplitAt(SubSeq(s, i + 1, Len(s)), c)

\* RFC 4648 section 5: the URL-safe alphabet, value n at position n + 1.
UrlSafeAlphabet ==
    [i \in 1..64 |-> IF i = 63 THEN "-" ELSE IF i = 64 THEN "_"
                     ELSE Base64Alphabet[i]]

\* RFC 4648 section 4: the standard alphabet.
StandardAlphabet == Base64Alphabet

\* The 6-bit value of each character of an alphabet, as a table.
SextetsOf(alphabet) ==
    [c \in {alphabet[n] : n \in 1..64} |-> (CHOOSE n \in 1..64 : alphabet[n] = c) - 1]

UrlSafeSextets == SextetsOf(UrlSafeAlphabet)

StandardSextets == SextetsOf(StandardAlphabet)

InAlphabet(seg, sextets) ==
    \A i \in 1..Len(seg) : seg[i] \in DOMAIN sextets

RECURSIVE DecodeSextets(_)
\* The bytes that a sequence of 6-bit values spells, 4 values to 3 bytes, a
\* tail of 2 values to 1 byte and of 3 values to 2 bytes.
DecodeSextets(v) ==
    IF Len(v) < 2 THEN <<>>
    ELSE IF Len(v) = 2 THEN << v[1] * 4 + v[2] \div 16 >>
    ELSE IF Len(v) = 3 THEN
        << v[1] * 4 + v[2] \div 16, (v[2] % 16) * 16 + v[3] \div 4 >>
    ELSE
        << v[1] * 4 + v[2] \div 16, (v[2] % 16) * 16 + v[3] \div 4,
           (v[3] % 4) * 64 + v[4] >>
        \o DecodeSextets(SubSeq(v, 5, Len(v)))

\* seg is the unpadded base64 text of bytes over the alphabet of sextets: only
\* alphabet characters, the canonical length, unused trailing bits zero, and
\* decoding to exactly those bytes.
IsUnpaddedEncoding(seg, bytes, sextets) ==
    /\ InAlphabet(seg, sextets)
    /\ Len(seg) = (4 * Len(bytes) + 2) \div 3
    /\ LET v == [i \in 1..Len(seg) |-> sextets[seg[i]]]
       IN  /\ DecodeSextets(v) = bytes
           /\ Len(v) % 4 = 2 => Last(v) % 16 = 0
           /\ Len(v) % 4 = 3 => Last(v) % 4 = 0

\* body is the padded standard base64 text of bytes.
IsPaddedBase64(body, bytes) ==
    LET n == (4 * Len(bytes) + 2) \div 3
    IN  /\ Len(body) = 4 * ((Len(bytes) + 2) \div 3)
        /\ IsUnpaddedEncoding(SubSeq(body, 1, n), bytes, StandardSextets)
        /\ \A i \in (n + 1)..Len(body) : body[i] = "="

\* Every remote call of a finished invocation answered, with its payload.
RemoteSucceeded(p) ==
    /\ recv[p] # <<>>
    /\ \A i \in 1..Len(recv[p]) :
        LET req == sent[p][i]
            rsp == recv[p][i]
        IN  /\ rsp.ok
            /\ req.cmd = "AssumeRole" => rsp.Credentials.has
            /\ req.cmd = "CreateKey" => TruthyString(rsp.KeyId)
            /\ req.cmd = "GetPublicKey" => rsp.PublicKey.has
            /\ req.cmd = "DescribeKey" => rsp.Enabled.has
            /\ req.cmd = "Sign" => rsp.Signature.has
    /\ op[p] = "createKMSKey" => Len(recv[p]) = 2
    /\ op[p] = "signJWTWithKMSKey" => Len(recv[p]) = 2

\* Some remote call of the invocation threw.
RemoteFailed(p) == \E i \in 1..Len(recv[p]) : ~recv[p][i].ok

\* ---------------------------------------------------------------- claims

\* The signature segment of a returned token: what follows the signing input
\* and its '.'.
SignatureSegment(p) ==
    SubSeq(result[p].s, Len(local[p].encodedHeaderPayload) + 2, Len(result[p].s))

\* C1: a sign call whose JWK lookup fails, or whose remote Sign fails or
\* returns no signature, returns no token; and every returned token is the
\* signing input, a '.', and a non-empty signature segment that encodes
\* exactly the signature bytes the remote Sign returned.
C1_SignReturnsCompleteTokenOrNothing ==
    \A p \in Procs :
        Done(p, "signJWTWithKMSKey") =>
            /\ (RemoteFailed(p) \/ (Len(recv[p]) = 2 /\ ~Last(recv[p]).Signature.has))
                   => result[p] = undefined
            /\ result[p].t = "string" =>
                /\ Len(recv[p]) = 2
                /\ Last(recv[p]).ok
                /\ Last(recv[p]).Signature.has
                /\ SubSeq(result[p].s, 1, Len(local[p].encodedHeaderPayload) + 1)
                       = local[p].encodedHeaderPayload \o <<".">>
                /\ SignatureSegment(p) # <<>>
                /\ IsUnpaddedEncoding(SignatureSegment(p),
                                      Last(recv[p]).Signature.bytes, UrlSafeSextets)

\* C2: a create call whose CreateKey fails, or whose GetPublicKey fails or
\* returns no key material, returns nothing (no keyId, no publicKey); a result
\* with a keyId is returned only when both remote calls succeeded, and the
\* keyId is the one CreateKey returned.
C2_CreateReturnsNoPartialKey ==
    \A p \in Procs :
        Done(p, "createKMSKey") =>
            LET both == /\ Len(recv[p]) = 2
                        /\ recv[p][1].ok
                        /\ recv[p][2].ok
                        /\ recv[p][2].PublicKey.has
            IN  /\ ~both => result[p] = undefined
                /\ result[p] # undefined =>
                    /\ both
                    /\ result[p].t = "object"
                    /\ recv[p][1].KeyId.has
                    /\ result[p].keyId = recv[p][1].KeyId.str

\* C2 witness: CreateKey succeeded, GetPublicKey threw, the call returned
\* nothing while the remote key exists.
C2_Witness ==
    \E p \in Procs :
        /\ Done(p, "createKMSKey")
        /\ Len(recv[p]) = 2
        /\ recv[p][1].ok
        /\ ~recv[p][2].ok
        /\ result[p] = undefined
        /\ kms[recv[p][1].KeyId.str] # "Absent"

C4_FailureDistinguishableFromSuccess ==
    \A p, q \in Procs :
        ( /\ pc[p] = "done"
          /\ pc[q] = "done"
          /\ op[p] = op[q]
          /\ RemoteFailed(p)
          /\ RemoteSucceeded(q) ) => result[p] # result[q]

\* C5: a status call whose DescribeKey throws returns no boolean; a boolean it
\* returns is the Enabled flag of the DescribeKey response of that call, which
\* is the only request the call sent.
C5_StatusIsTheDescribeKeyFlag ==
    \A p \in Procs :
        Done(p, "getKMSKeyStatus") =>
            /\ Len(sent[p]) = 1
            /\ sent[p][1] = [cmd |-> "DescribeKey", KeyId |-> args[p].keyId]
            /\ ~recv[p][1].ok => result[p] = undefined
            /\ result[p] # undefined =>
                /\ result[p].t = "boolean"
                /\ recv[p][1].ok
                /\ recv[p][1].Enabled.has
                /\ result[p].b = recv[p][1].Enabled.b

\* C5 witness: DescribeKey threw for a key that exists, and the call returned
\* nothing.
C5_Witness ==
    \E p \in Procs :
        /\ Done(p, "getKMSKeyStatus")
        /\ ~recv[p][1].ok
        /\ result[p] = undefined
        /\ kms[args[p].keyId] = "Enabled"

\* C6: an assumeRole call whose AssumeRole is rejected or carries no
\* credentials returns nothing and builds no KMS client; a client is returned
\* only after the AssumeRole of that call succeeded, and carries exactly the
\* accessKeyId, secretAccessKey and sessionToken of its response.
C6_ClientOnlyFromAssumedCredentials ==
    \A p \in Procs :
        Done(p, "getKMSClient") =>
            LET rsp == recv[p][1]
            IN  /\ Len(sent[p]) = 1
                /\ sent[p][1].cmd = "AssumeRole"
                /\ (~rsp.ok \/ ~rsp.Credentials.has) => result[p] = undefined
                /\ result[p] # undefined =>
                    /\ result[p].t = "KMSClient"
                    /\ rsp.ok
                    /\ rsp.Credentials.has
                    /\ result[p].credentials.accessKeyId = rsp.Credentials.AccessKeyId
                    /\ result[p].credentials.secretAccessKey
                           = rsp.Credentials.SecretAccessKey
                    /\ result[p].credentials.sessionToken = rsp.Credentials.SessionToken

\* C6 witness: one call was rejected and returned nothing while another got
\* credentials and returned a client.
C6_Witness ==
    \E p, q \in Procs :
        /\ Done(p, "getKMSClient")
        /\ ~recv[p][1].ok
        /\ result[p] = undefined
        /\ Done(q, "getKMSClient")
        /\ result[q].t = "KMSClient"

\* C7: a key returned by create has a valid PEM publicKey: the BEGIN PUBLIC KEY
\* line, a non-empty body that is the base64 of the bytes GetPublicKey
\* returned, the END PUBLIC KEY line; also when GetPublicKey returned zero
\* bytes.
C7_CreateReturnsValidPem ==
    \A p \in Procs :
        (Done(p, "createKMSKey") /\ result[p] # undefined) =>
            LET pem == result[p].publicKey
                body == SubSeq(pem, 3, Len(pem) - 2)
            IN  /\ Len(pem) >= 5
                /\ pem[1] = "-----BEGIN PUBLIC KEY-----"
                /\ pem[2] = "\n"
                /\ body # <<>>
                /\ IsPaddedBase64(body, recv[p][2].PublicKey.bytes)
                /\ pem[Len(pem) - 1] = "\n"
                /\ pem[Len(pem)] = "-----END PUBLIC KEY-----"

\* C8: a token returned by sign has exactly two '.' characters; its first two
\* segments are the unpadded base64url encodings of the serialized header and
\* payload; its signature segment is the unpadded base64url encoding of the raw
\* signature bytes and contains no '+', '/' or '='; the signature bytes
\* 0xAABBCC give the segment 'qrvM'.
C8_TokenIsCompactJws ==
    \A p \in Procs :
        (Done(p, "signJWTWithKMSKey") /\ result[p] # undefined) =>
            LET segments == SplitAt(result[p].s, ".")
                signature == Last(recv[p]).Signature.bytes
            IN  /\ result[p].t = "string"
                /\ Len(segments) = 3
                /\ IsUnpaddedEncoding(segments[1],
                                      Utf8(JSONStringify(args[p].header)),
                                      UrlSafeSextets)
                /\ IsUnpaddedEncoding(segments[2],
                                      Utf8(JSONStringify(args[p].payload)),
                                      UrlSafeSextets)
                /\ IsUnpaddedEncoding(segments[3], signature, UrlSafeSextets)
                /\ \A i \in 1..Len(segments[3]) :
                       segments[3][i] \notin {"+", "/", "="}
                /\ signature = <<170, 187, 204>>
                       => segments[3] = <<"q", "r", "v", "M">>

\* C8 witness: two sign calls have returned tokens, one for the signature
\* 0xAABBCC and one for 0xFBFF, whose standard base64 has '+', '/' and '='.
C8_Witness ==
    \E p, q \in Procs :
        /\ Done(p, "signJWTWithKMSKey")
        /\ result[p].t = "string"
        /\ Last(recv[p]).Signature.bytes = <<170, 187, 204>>
        /\ Done(q, "signJWTWithKMSKey")
        /\ result[q].t = "string"
        /\ Last(recv[q]).Signature.bytes = <<251, 255>>

\* C9: no operation retries.  An invocation sends at most the requests of its
\* function, in order: assumeRole one AssumeRole; create one CreateKey, then
\* one GetPublicKey only for the keyId that CreateKey returned; status one
\* DescribeKey; sign one JWK lookup, then one Sign only against the kms key id
\* the lookup resolved to; scheduleDeletion one ScheduleKeyDeletion.  After a
\* failed call it has sent nothing more and has terminated.
C9_NoRetry ==
    \A p \in Procs :
        LET n == Len(sent[p])
            cmds == [i \in 1..n |-> sent[p][i].cmd]
        IN  /\ Len(recv[p]) = n
            /\ op[p] = "none" => n = 0
            /\ op[p] = "getKMSClient" => cmds \in {<<>>, <<"AssumeRole">>}
            /\ op[p] = "getKMSKeyStatus" => cmds \in {<<>>, <<"DescribeKey">>}
            /\ op[p] = "scheduleKeyDeletion"
                   => cmds \in {<<>>, <<"ScheduleKeyDeletion">>}
            /\ op[p] = "createKMSKey" =>
                /\ cmds \in {<<>>, <<"CreateKey">>, <<"CreateKey", "GetPublicKey">>}
                /\ n = 2 =>
                    /\ recv[p][1].ok
                    /\ recv[p][1].KeyId.has
                    /\ sent[p][2].KeyId = recv[p][1].KeyId.str
            /\ op[p] = "signJWTWithKMSKey" =>
                /\ cmds \in {<<>>, <<"retrieveJWK">>, <<"retrieveJWK", "Sign">>}
                /\ n = 2 =>
                    /\ recv[p][1].ok
                    /\ sent[p][2].KeyId = recv[p][1].kms_id
            /\ \A i \in 1..n : ~recv[p][i].ok => (i = n /\ pc[p] = "done")

\* C9 witness: a create whose GetPublicKey threw and a sign whose Sign threw
\* have both terminated after two requests each.
C9_Witness ==
    \E p, q \in Procs :
        /\ Done(p, "createKMSKey")
        /\ Len(sent[p]) = 2
        /\ ~recv[p][2].ok
        /\ Done(q, "signJWTWithKMSKey")
        /\ Len(sent[q]) = 2
        /\ ~recv[q][2].ok

\* The invocation that takes the step, if one does.
Steps(p) == pc'[p] # pc[p]

\* C10: in every step taken by an invocation, under any interleaving: a key
\* that existed changes its lifecycle state only in a scheduleDeletion step
\* for that keyId, and only into PendingDeletion; a key comes to exist only in
\* a create step; sign and status (and assumeRole) steps leave every key as it
\* was and send no CreateKey or ScheduleKeyDeletion request; create steps send
\* no ScheduleKeyDeletion request.
C10_CoreOnlyTriggersPendingDeletion ==
    [][ \A p \in Procs :
          Steps(p) =>
            /\ \A k \in KeyIds :
                (kms[k] # "Absent" /\ kms'[k] # kms[k]) =>
                    /\ op[p] = "scheduleKeyDeletion"
                    /\ args[p].keyId = k
                    /\ kms'[k] = "PendingDeletion"
            /\ \A k \in KeyIds :
                (kms[k] = "Absent" /\ kms'[k] # kms[k]) => op[p] = "createKMSKey"
            /\ op'[p] \in {"signJWTWithKMSKey", "getKMSKeyStatus", "getKMSClient"} =>
                /\ kms' = kms
                /\ \A i \in 1..Len(sent'[p]) :
                       sent'[p][i].cmd \notin {"CreateKey", "ScheduleKeyDeletion"}
            /\ op'[p] = "createKMSKey" =>
                \A i \in 1..Len(sent'[p]) : sent'[p][i].cmd # "ScheduleKeyDeletion"
      ]_vars

\* C10 witness: a scheduleDeletion for one key was acknowledged and that key
\* is pending deletion, the other key is still enabled, and a sign call is in
\* flight against the remote service.
C10_Witness ==
    \E p, q \in Procs : \E k \in KeyIds :
        /\ Done(p, "scheduleKeyDeletion")
        /\ recv[p][1].ok
        /\ kms[args[p].keyId] = "PendingDeletion"
        /\ k # args[p].keyId
        /\ kms[k] = "Enabled"
        /\ op[q] = "signJWTWithKMSKey"
        /\ pc[q] = "Sign"

====
